---- MODULE Spec2Model ----
(***************************************************************************)
(* Model of serpentTools/samplers/detector.py: SampledDetector             *)
(* (fromDetectors, __init__, the allTallies / allErrors setters,           *)
(* spreadPlot) and DetectorSampler (_checkSizes, _process, _free).         *)
(*                                                                         *)
(* Numbers.  Tallies and relative errors of the input records are          *)
(* integers.  The aggregated values are kept exactly: a mean is a          *)
(* fraction, a propagated error or a deviation is a value                  *)
(*      (num / den) * sqrt(radNum / radDen)                                *)
(* built by the same sequence of operations as the code (sum, square,      *)
(* sqrt, divide).  Floating point rounding is not modelled.                *)
(***************************************************************************)
EXTENDS Integers, Sequences, FiniteSets, TLC

(***************************************************************************)
(* Bounds of the model.                                                    *)
(***************************************************************************)
\* longest list of records handed to fromDetectors in the numeric runs
MaxRuns == 2
\* tallies of the numeric records range over -MaxTally .. MaxTally
MaxTally == 1
\* relative errors of the numeric records range over 0 .. MaxErr
MaxErr == 1
\* longest list of records in the runs that exercise the shape and index
\* inspection
MaxRecords == 3
\* longest list of records in the runs that exercise the grid inspection
MaxGridRecords == 3
\* grid coordinates range over 0 .. MaxGrid, in units of 1e-8
MaxGrid == 2
\* longest list of records in the runs that exercise the accessors
MaxStack == 2
\* largest number of parsed sources of a DetectorSampler
MaxParsers == 2

(***************************************************************************)
(* Python values.                                                          *)
(***************************************************************************)
\* an optional value: None, or a present value v
None == << >>
Some(v) == << v >>
IsNone(o) == o = << >>
Val(o) == o[1]

\* the outcome of a call: it returned, or the exception class it raised
\* ("TypeError", "ValueError", "KeyError", "AttributeError",
\* "SerpentToolsException")
NoError == "none"

Abs(x) == IF x < 0 THEN -x ELSE x
Sign(x) == IF x < 0 THEN -1 ELSE IF x > 0 THEN 1 ELSE 0

RECURSIVE SumSeq(_)
SumSeq(s) == IF s = << >> THEN 0 ELSE Head(s) + SumSeq(Tail(s))

\* number of elements of an array of shape sh (a tuple of axis lengths)
RECURSIVE Size(_)
Size(sh) == IF sh = << >> THEN 1 ELSE Head(sh) * Size(Tail(sh))

\* an array: its shape and its elements, flattened
Array(sh, data) == [shape |-> sh, data |-> data]
Full(sh, v) == Array(sh, [i \in 1 .. Size(sh) |-> v])

(***************************************************************************)
(* Exact values produced by the reduction.                                 *)
(***************************************************************************)
\* the fraction num / den
Frac(n, d) == [num |-> n, den |-> d]
FracIsZero(q) == q.num = 0
FracEqInt(q, k) == q.num = k * q.den

\* the value (num / den) * sqrt(radNum / radDen)
Surd(n, d, rn, rd) == [num |-> n, den |-> d, radNum |-> rn, radDen |-> rd]
\* numpy.sqrt of a fraction >= 0
SqrtFrac(q) == Surd(1, 1, q.num, q.den)
\* x / k for an integer k
SurdDivInt(x, k) == [x EXCEPT !.den = x.den * k]
\* x / q for a fraction q
SurdDivFrac(x, q) == [x EXCEPT !.num = x.num * q.den, !.den = x.den * q.num]
SurdSign(x) == Sign(x.num) * Sign(x.den) * Sign(x.radNum) * Sign(x.radDen)
SurdIsZero(x) == SurdSign(x) = 0
\* the square of x as a fraction
SurdSquare(x) == Frac(x.num * x.num * x.radNum, x.den * x.den * x.radDen)
\* x = k for an integer k
SurdEqInt(x, k) ==
    /\ SurdSign(x) = Sign(k)
    /\ SurdSquare(x).num = k * k * SurdSquare(x).den

(***************************************************************************)
(* Detector records (serpentTools.Detector, consumed read-only).           *)
(*   tallies, errors : arrays of the same shape, errors relative           *)
(*   indexes         : None, or the set of keys of the index mapping       *)
(*   grids           : mapping from grid name to its coordinates           *)
(* isDetector is the outcome of isinstance(d, Detector).                   *)
(***************************************************************************)
Detector(tallies, errors, indexes, grids) ==
    [isDetector |-> TRUE, tallies |-> tallies, errors |-> errors,
     indexes |-> indexes, grids |-> grids]

\* an element of the iterable that is no Detector
NotADetector ==
    [isDetector |-> FALSE, tallies |-> Array(<< >>, << 0 >>),
     errors |-> Array(<< >>, << 0 >>), indexes |-> None, grids |-> << >>]

\* the empty grid mapping {}
NoGrids == << >>

(***************************************************************************)
(* SampledDetector.fromDetectors: the body of `for d in detectors`.        *)
(***************************************************************************)
\* numpy.allclose(refGrid, thisGrid) with numpy's default tolerances
\* (rtol = 1e-5, atol = 1e-8): |a - b| <= atol + rtol * |b| at every
\* coordinate; coordinates are integers in units of 1e-8.
allclose(refGrid, thisGrid) ==
    \A i \in 1 .. Len(refGrid) :
        Abs(refGrid[i] - thisGrid[i]) * 100000 <= 100000 + Abs(thisGrid[i])

\* ShapeStep with the shapes compared by their number of elements
ShapeStep_BySize(shape, d) ==
    IF IsNone(shape)
    THEN [shape |-> Some(d.tallies.shape), raised |-> NoError]
    ELSE IF Size(Val(shape)) # Size(d.tallies.shape)
         THEN [shape |-> shape, raised |-> "ValueError"]
         ELSE [shape |-> shape, raised |-> NoError]

\* lines 304-309: the reference shape and the shape comparison
ShapeStep(shape, d) ==
    IF IsNone(shape)
    THEN [shape |-> Some(d.tallies.shape), raised |-> NoError]
    ELSE IF Val(shape) # d.tallies.shape
         THEN [shape |-> shape, raised |-> "ValueError"]
         ELSE [shape |-> shape, raised |-> NoError]

\* lines 312-320: the reference indexes and the lookup of each of its keys.
\* iteritems(None) and None.get(key) raise AttributeError.
IndexStep(indexes, d) ==
    IF IsNone(indexes) /\ ~IsNone(d.indexes)
    THEN [indexes |-> d.indexes, raised |-> NoError]
    ELSE IF IsNone(indexes)
         THEN [indexes |-> indexes, raised |-> "AttributeError"]
         ELSE IF Val(indexes) = {}
              THEN [indexes |-> indexes, raised |-> NoError]
              ELSE IF IsNone(d.indexes)
                   THEN [indexes |-> indexes, raised |-> "AttributeError"]
                   ELSE IF \E key \in Val(indexes) : key \notin Val(d.indexes)
                        THEN [indexes |-> indexes, raised |-> "KeyError"]
                        ELSE [indexes |-> indexes, raised |-> NoError]

\* GridStep with differentGrids assigned, not added to
GridStep_LastOnly(grids, differentGrids, d) ==
    LET dHas == DOMAIN d.grids # {}
        refHas == DOMAIN grids # {}
    IN  IF dHas /\ ~refHas
        THEN [grids |-> d.grids, differentGrids |-> differentGrids,
              raised |-> NoError]
        ELSE IF ~dHas /\ refHas
        THEN [grids |-> grids, differentGrids |-> differentGrids,
              raised |-> "AttributeError"]
        ELSE IF dHas /\ refHas
        THEN IF \E key \in DOMAIN grids : key \notin DOMAIN d.grids
             THEN [grids |-> grids, differentGrids |-> differentGrids,
                   raised |-> "KeyError"]
             ELSE [grids |-> grids,
                   differentGrids |->
                       {key \in DOMAIN grids :
                            ~allclose(grids[key], d.grids[key])},
                   raised |-> NoError]
        ELSE [grids |-> grids, differentGrids |-> differentGrids,
              raised |-> NoError]

\* lines 323-335: the reference grids, the lookup of each reference grid
\* name and the comparison of the coordinates
GridStep(grids, differentGrids, d) ==
    LET dHas == DOMAIN d.grids # {}
        refHas == DOMAIN grids # {}
    IN  IF dHas /\ ~refHas
        THEN [grids |-> d.grids, differentGrids |-> differentGrids,
              raised |-> NoError]
        ELSE IF ~dHas /\ refHas
        THEN [grids |-> grids, differentGrids |-> differentGrids,
              raised |-> "AttributeError"]
        ELSE IF dHas /\ refHas
        THEN IF \E key \in DOMAIN grids : key \notin DOMAIN d.grids
             THEN [grids |-> grids, differentGrids |-> differentGrids,
                   raised |-> "KeyError"]
             ELSE [grids |-> grids,
                   differentGrids |-> differentGrids \cup
                       {key \in DOMAIN grids :
                            ~allclose(grids[key], d.grids[key])},
                   raised |-> NoError]
        ELSE [grids |-> grids, differentGrids |-> differentGrids,
              raised |-> NoError]

\* the locals of fromDetectors before the loop (lines 294-297)
LoopStart ==
    [shape |-> None, indexes |-> None, grids |-> NoGrids,
     differentGrids |-> {}, raised |-> NoError]

\* one iteration of the loop (lines 299-335) from the locals st
InspectDetector(st, d) ==
    IF ~d.isDetector
    THEN [st EXCEPT !.raised = "TypeError"]
    ELSE LET s == ShapeStep(st.shape, d)
         IN  IF s.raised # NoError
             THEN [st EXCEPT !.raised = s.raised]
             ELSE LET x == IndexStep(st.indexes, d)
                  IN  IF x.raised # NoError
                      THEN [st EXCEPT !.shape = s.shape, !.raised = x.raised]
                      ELSE LET g == GridStep(st.grids, st.differentGrids, d)
                           IN  [shape |-> s.shape, indexes |-> x.indexes,
                                grids |-> g.grids,
                                differentGrids |-> g.differentGrids,
                                raised |-> g.raised]

(***************************************************************************)
(* SampledDetector.fromDetectors: the stacking (lines 342-349).            *)
(***************************************************************************)
RECURSIVE Concat(_)
Concat(rows) == IF rows = << >> THEN << >> ELSE Head(rows) \o Concat(Tail(rows))

\* allTallies[ix] = d.tallies
StackTallies(dets, shape) ==
    Array(<< Len(dets) >> \o shape,
          Concat([k \in 1 .. Len(dets) |-> dets[k].tallies.data]))

\* StackErrors with the relative errors stored as they are
StackErrors_Relative(dets, shape) ==
    Array(<< Len(dets) >> \o shape,
          Concat([k \in 1 .. Len(dets) |-> dets[k].errors.data]))

\* allErrors[ix] = d.tallies * d.errors
StackErrors(dets, shape) ==
    Array(<< Len(dets) >> \o shape,
          Concat([k \in 1 .. Len(dets) |->
                    [i \in 1 .. Size(shape) |->
                        dets[k].tallies.data[i] * dets[k].errors.data[i]]]))

(***************************************************************************)
(* SampledDetector.__init__ (lines 146-161).                               *)
(***************************************************************************)
\* the shape of one run of a stacked array, and element i of run k
RunShape(all) == Tail(all.shape)
RunCount(all) == Head(all.shape)
At(all, k, i) == all.data[(k - 1) * Size(RunShape(all)) + i]
\* the values of bin i over the runs
Column(all, i) == [k \in 1 .. RunCount(all) |-> At(all, k, i)]

\* allTallies.mean(axis=0) at bin i
MeanAt(all, i) == Frac(SumSeq(Column(all, i)), RunCount(all))

\* square(allErrors).sum(axis=0) at bin i
InnerAt(all, i) ==
    SumSeq([k \in 1 .. RunCount(all) |-> At(all, k, i) * At(all, k, i)])

\* sqrt(inner) / allTallies.shape[0] at bin i
AbsErrorAt(allTallies, allErrors, i) ==
    SurdDivInt(SqrtFrac(Frac(InnerAt(allErrors, i), 1)), RunCount(allTallies))

\* errors after errors[nz] /= tallies[nz], at bin i
ErrorAt(allTallies, allErrors, i) ==
    IF FracIsZero(MeanAt(allTallies, i))
    THEN AbsErrorAt(allTallies, allErrors, i)
    ELSE SurdDivFrac(AbsErrorAt(allTallies, allErrors, i),
                     MeanAt(allTallies, i))

\* allTallies.std(axis=0) at bin i: sqrt(mean(|x - mean(x)|^2))
DeviationAt(all, i) ==
    LET n == RunCount(all)
        s == SumSeq(Column(all, i))
        sq == SumSeq([k \in 1 .. n |->
                        (At(all, k, i) * n - s) * (At(all, k, i) * n - s)])
    IN  SqrtFrac(Frac(sq, n * n * n))

\* the object built by SampledDetector(name, allTallies, allErrors, ...)
SampledDetector(allTallies, allErrors, indexes, grids) ==
    LET sh == RunShape(allTallies)
    IN  [allTallies |-> Some(allTallies),
         allErrors |-> Some(allErrors),
         tallies |-> Array(sh, [i \in 1 .. Size(sh) |-> MeanAt(allTallies, i)]),
         errors |-> Array(sh, [i \in 1 .. Size(sh) |->
                                  ErrorAt(allTallies, allErrors, i)]),
         deviation |-> Array(sh, [i \in 1 .. Size(sh) |->
                                     DeviationAt(allTallies, i)]),
         indexes |-> indexes,
         grids |-> grids]

(***************************************************************************)
(* State.                                                                  *)
(*   A call SampledDetector.fromDetectors(name, detectors):                *)
(*     pc             : "idle", "loop" (in the for loop), "warn" (after    *)
(*                      it), "stack" (building the arrays), "done"         *)
(*                      (returned), "raised"                               *)
(*     detectors      : the list passed                                    *)
(*     ix             : how many of its records the loop has processed     *)
(*     shape, indexes, grids, differentGrids : the locals of the loop      *)
(*     raised         : the exception the call raised, or NoError          *)
(*     warnings       : the warnings emitted, each the set of grid names   *)
(*                      it lists                                           *)
(*     sampled        : the SampledDetector returned, or None              *)
(*   Operations on a SampledDetector:                                      *)
(*     op             : the last operation called and its argument         *)
(*     opRaised       : the exception that operation raised, or NoError    *)
(*   A DetectorSampler:                                                    *)
(*     parsers        : the parsed sources in iteration order, each with   *)
(*                      its filePath and its detectors (name -> record)    *)
(*     skipPrecheck   : the sampler setting of that name                   *)
(*     spc            : "start", "sizes" (in the first loop of             *)
(*                      _checkSizes), "compare" (in its second loop),      *)
(*                      "group" (first loop of _process), "aggregate"      *)
(*                      (its second loop), "done", "raised"                *)
(*     pix            : how many parsers the current loop has visited      *)
(*     sizes, individualDetectors : the locals of those methods            *)
(*     pending        : the names the second loop of _process has yet to   *)
(*                      visit                                              *)
(*     samplerDetectors : the attribute DetectorSampler.detectors          *)
(*     samplerRaised  : the exception the sampler raised, or NoError       *)
(***************************************************************************)
VARIABLES pc, detectors, ix, shape, indexes, grids, differentGrids, raised,
          warnings, sampled, op, opRaised,
          parsers, skipPrecheck, spc, pix, sizes, individualDetectors,
          pending, samplerDetectors, samplerRaised

loopVars == << shape, indexes, grids, differentGrids >>
callVars == << pc, detectors, ix, shape, indexes, grids, differentGrids,
               raised, warnings >>
objVars == << sampled, op, opRaised >>
samplerVars == << parsers, skipPrecheck, spc, pix, sizes, individualDetectors,
                  pending, samplerDetectors, samplerRaised >>
vars == << callVars, objVars, samplerVars >>

NoOp == [name |-> "none", det |-> "", arg |-> None]

\* no fromDetectors call is under way and no object has been returned
NoCall ==
    /\ pc = "idle"
    /\ detectors = << >>
    /\ ix = 0
    /\ shape = None
    /\ indexes = None
    /\ grids = NoGrids
    /\ differentGrids = {}
    /\ raised = NoError
    /\ warnings = << >>
    /\ sampled = None
    /\ op = NoOp
    /\ opRaised = NoError

\* there is no sampler
NoSampler ==
    /\ parsers = << >>
    /\ skipPrecheck = FALSE
    /\ spc = "none"
    /\ pix = 0
    /\ sizes = None
    /\ individualDetectors = << >>
    /\ pending = {}
    /\ samplerDetectors = << >>
    /\ samplerRaised = NoError

Init == NoCall /\ NoSampler

\* the lists of at most n elements of R
Lists(R, n) == UNION {[1 .. k -> R] : k \in 0 .. n}

\* fromDetectors is called with the list dets (lines 294-297)
Call(dets) ==
    /\ pc = "idle"
    /\ pc' = "loop"
    /\ detectors' = dets
    /\ ix' = 0
    /\ shape' = LoopStart.shape
    /\ indexes' = LoopStart.indexes
    /\ grids' = LoopStart.grids
    /\ differentGrids' = LoopStart.differentGrids
    /\ UNCHANGED << raised, warnings, objVars, samplerVars >>

\* one iteration of `for d in detectors` (lines 299-335)
Inspect ==
    /\ pc = "loop"
    /\ ix < Len(detectors)
    /\ LET st == InspectDetector(
                    [shape |-> shape, indexes |-> indexes, grids |-> grids,
                     differentGrids |-> differentGrids, raised |-> NoError],
                    detectors[ix + 1])
       IN  /\ shape' = st.shape
           /\ indexes' = st.indexes
           /\ grids' = st.grids
           /\ differentGrids' = st.differentGrids
           /\ raised' = st.raised
           /\ pc' = IF st.raised = NoError THEN "loop" ELSE "raised"
    /\ ix' = ix + 1
    /\ UNCHANGED << detectors, warnings, objVars, samplerVars >>

\* the loop is exhausted
EndLoop ==
    /\ pc = "loop"
    /\ ix = Len(detectors)
    /\ pc' = "warn"
    /\ UNCHANGED << detectors, ix, loopVars, raised, warnings, objVars,
                    samplerVars >>

\* lines 337-340: one RuntimeWarning naming the grids collected
Warn ==
    /\ pc = "warn"
    /\ warnings' = IF differentGrids # {}
                   THEN Append(warnings, differentGrids)
                   ELSE warnings
    /\ pc' = "stack"
    /\ UNCHANGED << detectors, ix, loopVars, raised, objVars, samplerVars >>

\* lines 342-351: (len(detectors), ) + shape raises TypeError while shape
\* is None; otherwise the arrays are stacked and the object is built
Build ==
    /\ pc = "stack"
    /\ IF IsNone(shape)
       THEN /\ raised' = "TypeError"
            /\ pc' = "raised"
            /\ UNCHANGED sampled
       ELSE /\ sampled' = Some(SampledDetector(
                                 StackTallies(detectors, Val(shape)),
                                 StackErrors(detectors, Val(shape)),
                                 indexes, grids))
            /\ pc' = "done"
            /\ UNCHANGED raised
    /\ UNCHANGED << detectors, ix, loopVars, warnings, op, opRaised,
                    samplerVars >>

(***************************************************************************)
(* Records of the runs that exercise the reduction: every tally and        *)
(* relative error within the bounds in the first bin; a two-bin record     *)
(* carries a unit tally in its second bin.                                 *)
(***************************************************************************)
NumericRecords ==
    {Detector(Array(<< 1 >>, << t >>), Array(<< 1 >>, << e >>),
              Some({"energy"}), NoGrids) :
        t \in -MaxTally .. MaxTally, e \in 0 .. MaxErr}
    \cup
    {Detector(Array(<< 2 >>, << t, 1 >>), Array(<< 2 >>, << e, e >>),
              Some({"energy"}), NoGrids) :
        t \in -MaxTally .. MaxTally, e \in 0 .. MaxErr}

CallReduce ==
    /\ pc = "idle"
    /\ \E dets \in Lists(NumericRecords, MaxRuns) : Call(dets)

NextReduce == CallReduce \/ Inspect \/ EndLoop \/ Warn \/ Build

SpecReduce == Init /\ [][NextReduce]_vars

(***************************************************************************)
(* Properties of the reduction, checked under SpecReduce.                  *)
(***************************************************************************)
Returned == pc = "done" /\ ~IsNone(sampled)
Bins == 1 .. Size(Val(sampled).tallies.shape)
TallyOf(k, i) == detectors[k].tallies.data[i]
ErrorOf(k, i) == detectors[k].errors.data[i]

\* C1: at every bin where the aggregated mean tally is 0 the aggregated
\* relative error is 0, whatever the tallies and relative errors of the
\* runs at that bin are.
C1_ZeroTallyZeroError ==
    Returned =>
        \A i \in Bins :
            FracIsZero(Val(sampled).tallies.data[i])
                => SurdIsZero(Val(sampled).errors.data[i])

\* C2 as stated, for a record without negative tallies: aggregating
\* exactly one record reproduces its tallies and its relative errors at
\* every bin (a bin with tally 0 and a nonzero relative error included),
\* with deviation 0 at every bin.
C2_SingleRecordReproduced ==
    (/\ Returned
     /\ Len(detectors) = 1
     /\ \A i \in Bins : TallyOf(1, i) >= 0) =>
        \A i \in Bins :
            /\ FracEqInt(Val(sampled).tallies.data[i], TallyOf(1, i))
            /\ SurdEqInt(Val(sampled).errors.data[i], ErrorOf(1, i))
            /\ SurdIsZero(Val(sampled).deviation.data[i])

\* C2 amended: aggregating exactly one record reproduces its tallies with
\* deviation 0 at every bin; the aggregated error at a bin is the record's
\* relative error where its tally is positive, 0 where its tally is 0 and
\* the negated relative error where its tally is negative.
C2_SingleRecordSigned ==
    (Returned /\ Len(detectors) = 1) =>
        \A i \in Bins :
            /\ FracEqInt(Val(sampled).tallies.data[i], TallyOf(1, i))
            /\ SurdEqInt(Val(sampled).errors.data[i],
                         Sign(TallyOf(1, i)) * ErrorOf(1, i))
            /\ SurdIsZero(Val(sampled).deviation.data[i])

\* a single record was aggregated whose first bin has tally 0 and a nonzero
\* relative error and whose second bin has a positive tally
C2_Witness ==
    /\ Returned
    /\ Len(detectors) = 1
    /\ Size(detectors[1].tallies.shape) = 2
    /\ TallyOf(1, 1) = 0 /\ ErrorOf(1, 1) > 0
    /\ TallyOf(1, 2) > 0 /\ ErrorOf(1, 2) > 0

\* all runs carry the same nonzero tally and the same relative error at bin i
Uniform(i) ==
    /\ TallyOf(1, i) # 0
    /\ \A k \in 1 .. Len(detectors) :
           TallyOf(k, i) = TallyOf(1, i) /\ ErrorOf(k, i) = ErrorOf(1, i)

\* C3: when all N records have the same nonzero tally t and the same
\* relative error e at a bin, the aggregated tally there is t and the
\* aggregated relative error r is e / sqrt(N): r has the sign of e and
\* N * r^2 = e^2.
C3_UniformRuns ==
    Returned =>
        \A i \in Bins :
            Uniform(i) =>
                LET r == Val(sampled).errors.data[i]
                    e == ErrorOf(1, i)
                    n == Len(detectors)
                IN  /\ FracEqInt(Val(sampled).tallies.data[i], TallyOf(1, i))
                    /\ SurdSign(r) = Sign(e)
                    /\ n * SurdSquare(r).num = e * e * SurdSquare(r).den

(***************************************************************************)
(* Runs that exercise the shape and index inspection: records of three     *)
(* shapes whose indexes are absent, empty, or carry one or two keys, and   *)
(* an element that is no Detector.                                         *)
(***************************************************************************)
MergeShapes == {<< 1 >>, << 2 >>, << 1, 1 >>}
MergeIndexes ==
    {None, Some({}), Some({"energy"}), Some({"energy", "xmesh"})}

MergeRecords ==
    {Detector(Full(sh, 1), Full(sh, 1), x, NoGrids) :
        sh \in MergeShapes, x \in MergeIndexes}
    \cup {NotADetector}

CallMerge ==
    /\ pc = "idle"
    /\ \E dets \in Lists(MergeRecords, MaxRecords) : Call(dets)

NextMerge == CallMerge \/ Inspect \/ EndLoop \/ Warn \/ Build

SpecMerge == Init /\ [][NextMerge]_vars

Called == pc # "idle"
Finished == pc \in {"done", "raised"}
AllDetectors == \A k \in 1 .. Len(detectors) : detectors[k].isDetector
ShapeOf(k) == detectors[k].tallies.shape
EqualShapes == \A k \in 1 .. Len(detectors) : ShapeOf(k) = ShapeOf(1)

\* the least element of a set of positions, or 0
FirstOf(S) == IF S = {} THEN 0 ELSE CHOOSE k \in S : \A j \in S : k <= j

HasIndexes(k) == ~IsNone(detectors[k].indexes)
\* the first record whose indexes are not absent, or 0
FirstWithIndexes == FirstOf({k \in 1 .. Len(detectors) : HasIndexes(k)})
\* record k has no value for some key of the indexes of record j
LacksKeyOf(k, j) ==
    \/ IsNone(detectors[k].indexes) /\ Val(detectors[j].indexes) # {}
    \/ /\ ~IsNone(detectors[k].indexes)
       /\ \E key \in Val(detectors[j].indexes) :
              key \notin Val(detectors[k].indexes)

\* C4: the reference indexes are those of the first record whose indexes
\* are not absent; records before it, with absent indexes, are accepted
\* without any error; a record after it raises KeyError, and no other
\* error, exactly when it has no value for some key of the reference (a
\* record whose indexes are absent included).
C4_IndexReference ==
    (Called /\ ix >= 1 /\ AllDetectors /\ EqualShapes) =>
        LET ref == FirstWithIndexes
        IN  /\ (ref = 0 \/ ix < ref) => raised = NoError
            /\ (ref # 0 /\ ix >= ref) => indexes = detectors[ref].indexes
            /\ (ref # 0 /\ ix > ref) =>
                   /\ raised \in {NoError, "KeyError"}
                   /\ raised = "KeyError" <=> LacksKeyOf(ix, ref)

Differs(k) == ShapeOf(k) # ShapeOf(1)
\* the first record whose shape differs from the first record's, or 0
FirstDiffering == FirstOf({k \in 1 .. Len(detectors) : Differs(k)})
TwoShapes == \E k \in 1 .. Len(detectors) : Differs(k)

\* C5 as stated, for records that all carry indexes: the reference shape
\* is that of the first record, and a call on a list with two different
\* tally shapes raises ValueError at the first record whose shape differs
\* from the first record's.
C5_ValueErrorAtFirstMismatch ==
    (Called /\ AllDetectors /\ \A k \in 1 .. Len(detectors) : HasIndexes(k)) =>
        /\ ix >= 1 => shape = Some(ShapeOf(1))
        /\ (Finished /\ TwoShapes) =>
               raised = "ValueError" /\ ix = FirstDiffering

\* C5 amended: the reference shape is that of the first record; a call on
\* a list with two different tally shapes never returns a SampledDetector:
\* it raises ValueError at the first record whose shape differs from the
\* first record's, unless a record before that one has already raised
\* KeyError or AttributeError in the index inspection.
C5_NoResultFromTwoShapes ==
    (Called /\ AllDetectors) =>
        /\ ix >= 1 => shape = Some(ShapeOf(1))
        /\ TwoShapes => IsNone(sampled) /\ pc # "done"
        /\ (Finished /\ TwoShapes) =>
               /\ pc = "raised"
               /\ ix <= FirstDiffering
               /\ ix = FirstDiffering => raised = "ValueError"
               /\ ix < FirstDiffering =>
                      raised \in {"KeyError", "AttributeError"}
        /\ raised = "ValueError" => ix = FirstDiffering

\* ValueError was raised at the third record, the first of another shape
C5_Witness ==
    /\ pc = "raised"
    /\ raised = "ValueError"
    /\ AllDetectors
    /\ ix = 3
    /\ FirstDiffering = 3

(***************************************************************************)
(* Runs that exercise the grid inspection: records of one shape whose      *)
(* grids map any subset of two grid names to a coordinate.                 *)
(***************************************************************************)
GridNames == {"E", "X"}
GridMappings ==
    UNION {[S -> {<< v >> : v \in 0 .. MaxGrid}] : S \in SUBSET GridNames}

GridRecords ==
    {Detector(Full(<< 1 >>, 1), Full(<< 1 >>, 1), Some({"energy"}), g) :
        g \in GridMappings}

CallGrids ==
    /\ pc = "idle"
    /\ \E dets \in Lists(GridRecords, MaxGridRecords) : Call(dets)

NextGrids == CallGrids \/ Inspect \/ EndLoop \/ Warn \/ Build

SpecGrids == Init /\ [][NextGrids]_vars

HasGrids(k) == DOMAIN detectors[k].grids # {}
\* the first record whose grids are not empty, or 0
FirstWithGrids == FirstOf({k \in 1 .. Len(detectors) : HasGrids(k)})

\* the reference grid names on which one of the records after the first
\* record with grids, up to record n, is not close to the reference
Divergent(n) ==
    LET ref == FirstWithGrids
    IN  IF ref = 0
        THEN {}
        ELSE {key \in DOMAIN detectors[ref].grids :
                 \E k \in ref + 1 .. n :
                     /\ key \in DOMAIN detectors[k].grids
                     /\ ~allclose(detectors[ref].grids[key],
                                  detectors[k].grids[key])}

\* C8 as stated: a call in which some grid of a later record differs from
\* the reference emits exactly one warning, listing every divergent grid
\* name; a call in which none differs emits no warning.
C8_OneWarningPerCall ==
    Finished =>
        warnings = IF Divergent(Len(detectors)) # {}
                   THEN << Divergent(Len(detectors)) >>
                   ELSE << >>

\* C8 amended: a divergent grid does not make the call raise: its name is
\* collected and the loop goes on.  If no record makes the call raise,
\* exactly one warning listing every divergent grid name is emitted after
\* the last record has been processed and before the result is built, and
\* no warning when no grid diverges.  If a record makes the call raise (its
\* grids are absent or lack a reference grid name), the call emits no
\* warning at all.
C8_WarningAfterLoop ==
    /\ pc = "loop" => differentGrids = Divergent(ix)
    /\ pc \in {"idle", "loop", "warn", "raised"} => warnings = << >>
    /\ pc = "warn" =>
           /\ ix = Len(detectors)
           /\ differentGrids = Divergent(Len(detectors))
           /\ IsNone(sampled)
    /\ pc = "stack" => IsNone(sampled)
    /\ pc \in {"stack", "done"} =>
           warnings = IF Divergent(Len(detectors)) # {}
                      THEN << Divergent(Len(detectors)) >>
                      ELSE << >>
    /\ raised # NoError =>
           \/ Len(detectors) = 0
           \/ /\ FirstWithGrids # 0
              /\ ix > FirstWithGrids
              /\ \E key \in DOMAIN detectors[FirstWithGrids].grids :
                     key \notin DOMAIN detectors[ix].grids

\* two grid names diverged, in different records, and the call returned
\* after one warning that lists both
C8_Witness ==
    /\ pc = "done"
    /\ Len(detectors) = 3
    /\ Divergent(2) = {"E"}
    /\ Divergent(3) = {"E", "X"}
    /\ warnings = << {"E", "X"} >>

(***************************************************************************)
(* Operations on a SampledDetector obj.  Each yields the object after the  *)
(* call and the exception raised.                                          *)
(***************************************************************************)
\* SampledDetector.free(): allTallies and allErrors become None
free(obj) == [obj EXCEPT !.allTallies = None, !.allErrors = None]

\* the allTallies setter (lines 167-183); self._tallies is the array behind
\* the tallies attribute
setAllTallies(obj, tallies) ==
    IF IsNone(tallies)
    THEN [obj |-> [obj EXCEPT !.allTallies = None], raised |-> NoError]
    ELSE IF IsNone(obj.allTallies)
         THEN [obj |-> [obj EXCEPT !.allTallies = tallies],
               raised |-> NoError]
         ELSE IF Val(tallies).shape # obj.tallies.shape
              THEN [obj |-> obj, raised |-> "ValueError"]
              ELSE [obj |-> [obj EXCEPT !.allTallies = tallies],
                    raised |-> NoError]

\* the allErrors setter (lines 189-205); self._errors is the array behind
\* the errors attribute
setAllErrors(obj, errors) ==
    IF IsNone(errors)
    THEN [obj |-> [obj EXCEPT !.allErrors = None], raised |-> NoError]
    ELSE IF IsNone(obj.allErrors)
         THEN [obj |-> [obj EXCEPT !.allErrors = errors],
               raised |-> NoError]
         ELSE IF Val(errors).shape # obj.errors.shape
              THEN [obj |-> obj, raised |-> "ValueError"]
              ELSE [obj |-> [obj EXCEPT !.allErrors = errors],
                    raised |-> NoError]

\* spreadPlot without the guard on allTallies: iterating over None raises
\* TypeError
spreadPlot_Unguarded(obj) ==
    IF Len(obj.tallies.shape) # 1
    THEN "SerpentToolsException"
    ELSE IF IsNone(obj.allTallies)
         THEN "TypeError"
         ELSE NoError

\* spreadPlot() with fixed=None (lines 242-262): the guard on allTallies,
\* then the guard on the rank of the data to plot
spreadPlot(obj) ==
    IF IsNone(obj.allTallies)
    THEN "AttributeError"
    ELSE IF Len(obj.tallies.shape) # 1
         THEN "SerpentToolsException"
         ELSE NoError

(***************************************************************************)
(* Runs that exercise the accessors of a returned SampledDetector.         *)
(***************************************************************************)
AccessRecords ==
    {Detector(Full(sh, t), Full(sh, 1), Some({"energy"}), NoGrids) :
        sh \in {<< 1 >>, << 2 >>}, t \in {1, 2}}

CallAccess ==
    /\ pc = "idle"
    /\ \E dets \in Lists(AccessRecords, MaxStack) : Call(dets)

\* the values assigned: None, or a zero array of the shape of the mean
\* tallies, of the shape of the stacked arrays, or of one more run
Assignable ==
    LET sh == Val(sampled).tallies.shape
        n == Len(detectors)
    IN  {None} \cup {Some(Full(s, 0)) : s \in {sh, << n >> \o sh,
                                                << n + 1 >> \o sh}}

Free ==
    /\ pc = "done"
    /\ sampled' = Some(free(Val(sampled)))
    /\ op' = [name |-> "free", det |-> "", arg |-> None]
    /\ opRaised' = NoError
    /\ UNCHANGED << callVars, samplerVars >>

SetAllTallies ==
    /\ pc = "done"
    /\ \E a \in Assignable :
           LET r == setAllTallies(Val(sampled), a)
           IN  /\ sampled' = Some(r.obj)
               /\ op' = [name |-> "setAllTallies", det |-> "", arg |-> a]
               /\ opRaised' = r.raised
    /\ UNCHANGED << callVars, samplerVars >>

SetAllErrors ==
    /\ pc = "done"
    /\ \E a \in Assignable :
           LET r == setAllErrors(Val(sampled), a)
           IN  /\ sampled' = Some(r.obj)
               /\ op' = [name |-> "setAllErrors", det |-> "", arg |-> a]
               /\ opRaised' = r.raised
    /\ UNCHANGED << callVars, samplerVars >>

SpreadPlot ==
    /\ pc = "done"
    /\ op' = [name |-> "spreadPlot", det |-> "", arg |-> None]
    /\ opRaised' = spreadPlot(Val(sampled))
    /\ UNCHANGED << callVars, sampled, samplerVars >>

NextAccess ==
    \/ CallAccess \/ Inspect \/ EndLoop \/ Warn \/ Build
    \/ Free \/ SetAllTallies \/ SetAllErrors \/ SpreadPlot

SpecAccess == Init /\ [][NextAccess]_vars

\* C9: assigning an array to allTallies (allErrors) while the stored value
\* is not None is accepted if and only if the array has the shape of the
\* stored value; a rejected assignment raises ValueError and leaves the
\* stored value unchanged, an accepted one replaces it.
C9_SetterKeepsStoredShape ==
    [][/\ (/\ op'.name = "setAllTallies"
           /\ ~IsNone(op'.arg)
           /\ ~IsNone(Val(sampled).allTallies)) =>
              /\ opRaised' = NoError <=>
                     Val(op'.arg).shape = Val(Val(sampled).allTallies).shape
              /\ opRaised' \in {NoError, "ValueError"}
              /\ opRaised' # NoError => sampled' = sampled
              /\ opRaised' = NoError => Val(sampled').allTallies = op'.arg
       /\ (/\ op'.name = "setAllErrors"
           /\ ~IsNone(op'.arg)
           /\ ~IsNone(Val(sampled).allErrors)) =>
              /\ opRaised' = NoError <=>
                     Val(op'.arg).shape = Val(Val(sampled).allErrors).shape
              /\ opRaised' \in {NoError, "ValueError"}
              /\ opRaised' # NoError => sampled' = sampled
              /\ opRaised' = NoError => Val(sampled').allErrors = op'.arg
      ]_vars

(***************************************************************************)
(* SampledDetector.fromDetectors as one call: the outcome for the list     *)
(* dets (lines 294-351).                                                   *)
(***************************************************************************)
RECURSIVE RunLoop(_, _, _)
RunLoop(st, dets, k) ==
    IF st.raised # NoError \/ k > Len(dets)
    THEN st
    ELSE RunLoop(InspectDetector(st, dets[k]), dets, k + 1)

fromDetectors(dets) ==
    LET st == RunLoop(LoopStart, dets, 1)
    IN  IF st.raised # NoError
        THEN [raised |-> st.raised, warned |-> {}, sampled |-> None]
        ELSE IF IsNone(st.shape)
        THEN [raised |-> "TypeError", warned |-> st.differentGrids,
              sampled |-> None]
        ELSE [raised |-> NoError, warned |-> st.differentGrids,
              sampled |-> Some(SampledDetector(
                                  StackTallies(dets, Val(st.shape)),
                                  StackErrors(dets, Val(st.shape)),
                                  st.indexes, st.grids))]

(***************************************************************************)
(* DetectorSampler.                                                        *)
(***************************************************************************)
Parser(filePath, dets) == [filePath |-> filePath, detectors |-> dets]

\* Sampler._checkParserDictKeys('detectors'): every source exposes the same
\* set of detector names
SameDetectorNames(ps) ==
    \A k \in 1 .. Len(ps) : DOMAIN ps[k].detectors = DOMAIN ps[1].detectors

\* AddShape with the set of a shape already seen replaced
AddShape_Overwrite(level, sh, filePath) ==
    IF sh \notin DOMAIN level
    THEN (sh :> {filePath}) @@ level
    ELSE [level EXCEPT ![sh] = {filePath}]

\* lines 72-77: the file path joins the set kept for the shape
AddShape(level, sh, filePath) ==
    IF sh \notin DOMAIN level
    THEN (sh :> {filePath}) @@ level
    ELSE [level EXCEPT ![sh] = @ \cup {filePath}]

\* lines 69-77: one iteration of `for parser in self.parsers`; sizes[detName]
\* raises KeyError for a name the first parser does not have
VisitParser(sz, parser) ==
    LET start == IF IsNone(sz)
                 THEN [det \in DOMAIN parser.detectors |-> << >>]
                 ELSE Val(sz)
    IN  IF \E detName \in DOMAIN parser.detectors : detName \notin DOMAIN start
        THEN [sizes |-> Some(start), raised |-> "KeyError"]
        ELSE [sizes |-> Some([detName \in DOMAIN start |->
                               IF detName \in DOMAIN parser.detectors
                               THEN AddShape(start[detName],
                                        parser.detectors[detName].tallies.shape,
                                        parser.filePath)
                               ELSE start[detName]]),
              raised |-> NoError]

\* lines 78-80: some detector name has more than one shape
MisMatched(sz) == \E detName \in DOMAIN sz : Cardinality(DOMAIN sz[detName]) > 1

\* GroupParser with the detector put at the head of its list
GroupParser_Prepend(ind, parser) ==
    [detName \in DOMAIN ind \cup DOMAIN parser.detectors |->
        IF detName \in DOMAIN parser.detectors
        THEN << parser.detectors[detName] >> \o
                 (IF detName \in DOMAIN ind THEN ind[detName] ELSE << >>)
        ELSE ind[detName]]

\* lines 85-86: the detectors of one parser join the lists
GroupParser(ind, parser) ==
    [detName \in DOMAIN ind \cup DOMAIN parser.detectors |->
        IF detName \in DOMAIN parser.detectors
        THEN Append(IF detName \in DOMAIN ind THEN ind[detName] ELSE << >>,
                    parser.detectors[detName])
        ELSE ind[detName]]

\* lines 91-93: free() on every SampledDetector held
FreeAll(dets) == [detName \in DOMAIN dets |-> free(dets[detName])]

\* Sampler.process(): the precheck unless skipPrecheck is set, then _process
StartProcess ==
    /\ spc = "start"
    /\ samplerRaised = NoError
    /\ IF skipPrecheck
       THEN spc' = "group" /\ UNCHANGED samplerRaised
       ELSE IF SameDetectorNames(parsers)
            THEN spc' = "sizes" /\ UNCHANGED samplerRaised
            ELSE spc' = "start" /\ samplerRaised' = "SerpentToolsException"
    /\ UNCHANGED << parsers, skipPrecheck, pix, sizes, individualDetectors,
                    pending, samplerDetectors, callVars, objVars >>

\* _checkSizes: one iteration of its first loop
CheckSizesVisit ==
    /\ spc = "sizes"
    /\ samplerRaised = NoError
    /\ pix < Len(parsers)
    /\ LET r == VisitParser(sizes, parsers[pix + 1])
       IN  sizes' = r.sizes /\ samplerRaised' = r.raised
    /\ pix' = pix + 1
    /\ UNCHANGED << parsers, skipPrecheck, spc, individualDetectors, pending,
                    samplerDetectors, callVars, objVars >>

\* _checkSizes: its second loop, which raises through _raiseErrorMsgFromDict
CheckSizesCompare ==
    /\ spc = "sizes"
    /\ samplerRaised = NoError
    /\ pix = Len(parsers)
    /\ IF MisMatched(Val(sizes))
       THEN /\ samplerRaised' = "SerpentToolsException"
            /\ UNCHANGED << spc, pix >>
       ELSE /\ spc' = "group"
            /\ pix' = 0
            /\ UNCHANGED samplerRaised
    /\ UNCHANGED << parsers, skipPrecheck, sizes, individualDetectors,
                    pending, samplerDetectors, callVars, objVars >>

\* _process: one iteration of `for parser in self`
Group ==
    /\ spc = "group"
    /\ pix < Len(parsers)
    /\ individualDetectors' = GroupParser(individualDetectors, parsers[pix + 1])
    /\ pix' = pix + 1
    /\ UNCHANGED << parsers, skipPrecheck, spc, sizes, pending,
                    samplerDetectors, samplerRaised, callVars, objVars >>

\* _process: the first loop is exhausted, the second starts
StartAggregate ==
    /\ spc = "group"
    /\ pix = Len(parsers)
    /\ spc' = "aggregate"
    /\ pending' = DOMAIN individualDetectors
    /\ UNCHANGED << parsers, skipPrecheck, pix, sizes, individualDetectors,
                    samplerDetectors, samplerRaised, callVars, objVars >>

\* _process: one iteration of `for name, detList in ...` (lines 87-89); an
\* exception of fromDetectors leaves _process
Aggregate ==
    /\ spc = "aggregate"
    /\ samplerRaised = NoError
    /\ \E name \in pending :
           LET r == fromDetectors(individualDetectors[name])
           IN  IF r.raised # NoError
               THEN /\ samplerRaised' = r.raised
                    /\ UNCHANGED << pending, samplerDetectors >>
               ELSE /\ samplerDetectors' =
                           (name :> Val(r.sampled)) @@ samplerDetectors
                    /\ pending' = pending \ {name}
                    /\ UNCHANGED samplerRaised
    /\ UNCHANGED << parsers, skipPrecheck, spc, pix, sizes,
                    individualDetectors, callVars, objVars >>

\* _process returns
EndProcess ==
    /\ spc = "aggregate"
    /\ samplerRaised = NoError
    /\ pending = {}
    /\ spc' = "done"
    /\ UNCHANGED << parsers, skipPrecheck, pix, sizes, individualDetectors,
                    pending, samplerDetectors, samplerRaised, callVars,
                    objVars >>

\* DetectorSampler._free()
SamplerFree ==
    /\ spc = "done"
    /\ samplerDetectors' = FreeAll(samplerDetectors)
    /\ op' = [name |-> "free", det |-> "", arg |-> None]
    /\ opRaised' = NoError
    /\ UNCHANGED << parsers, skipPrecheck, spc, pix, sizes,
                    individualDetectors, pending, samplerRaised, callVars,
                    sampled >>

\* sampler[name].spreadPlot()
SamplerSpreadPlot ==
    /\ spc = "done"
    /\ \E name \in DOMAIN samplerDetectors :
           /\ op' = [name |-> "spreadPlot", det |-> name, arg |-> None]
           /\ opRaised' = spreadPlot(samplerDetectors[name])
    /\ UNCHANGED << samplerVars, callVars, sampled >>

(***************************************************************************)
(* Runs of a DetectorSampler: each source exposes any subset of two        *)
(* detector names; file path k stands for the path of the k-th source.     *)
(***************************************************************************)
SamplerNames == {"A", "B"}
SamplerRecords ==
    {Detector(Full(sh, t), Full(sh, 1), Some({"energy"}), NoGrids) :
        sh \in {<< 1 >>, << 2 >>}, t \in {1, 2}}
    \cup {Detector(Full(<< 1 >>, 1), Full(<< 1 >>, 1), Some({"energy"}),
                   "E" :> << 0 >>)}

DetectorMappings ==
    UNION {[S -> SamplerRecords] : S \in SUBSET SamplerNames}

InitSampler ==
    /\ NoCall
    /\ \E n \in 1 .. MaxParsers :
           \E dets \in [1 .. n -> DetectorMappings] :
               parsers = [k \in 1 .. n |-> Parser(k, dets[k])]
    /\ skipPrecheck \in BOOLEAN
    /\ spc = "start"
    /\ pix = 0
    /\ sizes = None
    /\ individualDetectors = << >>
    /\ pending = {}
    /\ samplerDetectors = << >>
    /\ samplerRaised = NoError

NextSampler ==
    \/ StartProcess \/ CheckSizesVisit \/ CheckSizesCompare
    \/ Group \/ StartAggregate \/ Aggregate \/ EndProcess
    \/ SamplerFree \/ SamplerSpreadPlot

SpecSampler == InitSampler /\ [][NextSampler]_vars

(***************************************************************************)
(* Properties of the sampler, checked under SpecSampler.                   *)
(***************************************************************************)
\* the sources among the first n that expose the detector name
Exposing(name, n) == {k \in 1 .. n : name \in DOMAIN parsers[k].detectors}
\* the names exposed by some of the first n sources
Exposed(n) == UNION {DOMAIN parsers[k].detectors : k \in 1 .. n}
\* the shapes of the detector name in the first n sources
ShapesSeen(name, n) ==
    {parsers[k].detectors[name].tallies.shape : k \in Exposing(name, n)}
\* the file paths of those of the first n sources where name has shape sh
PathsWith(name, sh, n) ==
    {parsers[k].filePath :
        k \in {j \in Exposing(name, n) :
                  parsers[j].detectors[name].tallies.shape = sh}}

\* C7: over sources that expose the same detector names, _checkSizes maps,
\* for each detector name, each tally shape to the set of file paths of the
\* sources that exhibit it; it raises the combinability error if and only
\* if some name has more than one shape, and passes silently otherwise.
C7_CheckSizes ==
    /\ (spc = "sizes" /\ pix >= 1) =>
           /\ DOMAIN Val(sizes) = DOMAIN parsers[1].detectors
           /\ \A name \in DOMAIN Val(sizes) :
                  /\ DOMAIN Val(sizes)[name] = ShapesSeen(name, pix)
                  /\ \A sh \in DOMAIN Val(sizes)[name] :
                         Val(sizes)[name][sh] = PathsWith(name, sh, pix)
    /\ (spc = "sizes" /\ samplerRaised # NoError) =>
           /\ samplerRaised = "SerpentToolsException"
           /\ pix = Len(parsers)
           /\ \E name \in Exposed(Len(parsers)) :
                  Cardinality(ShapesSeen(name, Len(parsers))) > 1
    /\ (~skipPrecheck /\ spc \in {"group", "aggregate", "done"}) =>
           \A name \in Exposed(Len(parsers)) :
               Cardinality(ShapesSeen(name, Len(parsers))) = 1

\* two sources expose A and B; A has two shapes, each mapped to its file,
\* B has one shape mapped to both files, and _checkSizes raised
C7_Witness ==
    /\ spc = "sizes"
    /\ samplerRaised = "SerpentToolsException"
    /\ Len(parsers) = 2
    /\ DOMAIN Val(sizes) = {"A", "B"}
    /\ Val(sizes)["A"] = (<< 1 >> :> {1}) @@ (<< 2 >> :> {2})
    /\ Val(sizes)["B"] = (<< 1 >> :> {1, 2})

\* the records of the detector name in the first n sources, in the order
\* of the sources
RECURSIVE Collect(_, _)
Collect(name, n) ==
    IF n = 0
    THEN << >>
    ELSE IF name \in DOMAIN parsers[n].detectors
         THEN Append(Collect(name, n - 1), parsers[n].detectors[name])
         ELSE Collect(name, n - 1)

\* C10: aggregation starts only after the records of every source have
\* been grouped; each name is aggregated once, from the list of its records
\* (one per source exposing it, in the order of the sources); a name is in
\* the detectors mapping if and only if its aggregation succeeded, and the
\* name for which fromDetectors raises is absent from it.
C10_ProcessAggregates ==
    /\ spc \in {"start", "sizes", "group"} =>
           DOMAIN samplerDetectors = {} /\ pending = {}
    /\ spc = "group" =>
           /\ DOMAIN individualDetectors = Exposed(pix)
           /\ \A name \in Exposed(pix) :
                  individualDetectors[name] = Collect(name, pix)
    /\ spc \in {"aggregate", "done"} =>
           /\ DOMAIN individualDetectors = Exposed(Len(parsers))
           /\ \A name \in Exposed(Len(parsers)) :
                  individualDetectors[name] = Collect(name, Len(parsers))
           /\ DOMAIN samplerDetectors = Exposed(Len(parsers)) \ pending
           /\ \A name \in DOMAIN samplerDetectors :
                  LET r == fromDetectors(Collect(name, Len(parsers)))
                  IN  /\ r.raised = NoError
                      /\ samplerDetectors[name].tallies = Val(r.sampled).tallies
                      /\ op = NoOp => samplerDetectors[name] = Val(r.sampled)
           /\ samplerRaised # NoError =>
                  \E name \in pending :
                      fromDetectors(Collect(name, Len(parsers))).raised
                          = samplerRaised
           /\ spc = "done" => pending = {} /\ samplerRaised = NoError

\* fromDetectors raised for one name, built from the records of two
\* sources, after the other name had been aggregated
C10_Witness ==
    /\ spc = "aggregate"
    /\ samplerRaised # NoError
    /\ Len(parsers) = 2
    /\ DOMAIN samplerDetectors = {"A"}
    /\ pending = {"B"}
    /\ Len(individualDetectors["A"]) = 2
    /\ Len(individualDetectors["B"]) = 2

AllFreed(dets) ==
    \A name \in DOMAIN dets :
        IsNone(dets[name].allTallies) /\ IsNone(dets[name].allErrors)

\* C6: after free(), allTallies and allErrors are None while tallies,
\* errors and deviation have the values they had before the call; from
\* then on spreadPlot raises AttributeError; the free of DetectorSampler
\* does this to every SampledDetector it holds.
C6_FreeThenPlotRaises ==
    /\ [][op'.name = "free" =>
            /\ DOMAIN samplerDetectors' = DOMAIN samplerDetectors
            /\ AllFreed(samplerDetectors')
            /\ \A name \in DOMAIN samplerDetectors :
                   /\ samplerDetectors'[name].tallies
                          = samplerDetectors[name].tallies
                   /\ samplerDetectors'[name].errors
                          = samplerDetectors[name].errors
                   /\ samplerDetectors'[name].deviation
                          = samplerDetectors[name].deviation]_vars
    /\ [][(spc = "done" /\ AllFreed(samplerDetectors))
              => AllFreed(samplerDetectors')]_vars
    /\ [](op.name = "spreadPlot" =>
              (opRaised = "AttributeError"
                   <=> IsNone(samplerDetectors[op.det].allTallies)))

\* the sampler freed two SampledDetectors with nonzero deviation, and
\* spreadPlot on one of them then raised AttributeError
C6_Witness ==
    /\ spc = "done"
    /\ DOMAIN samplerDetectors = {"A", "B"}
    /\ AllFreed(samplerDetectors)
    /\ \A name \in {"A", "B"} :
           ~SurdIsZero(samplerDetectors[name].deviation.data[1])
    /\ op.name = "spreadPlot"
    /\ opRaised = "AttributeError"

(***************************************************************************)
(* What holds of the reduction where C1 and C3 fail, and the agreement of  *)
(* the call in steps with the call in one piece.                           *)
(***************************************************************************)
NoNegativeTally ==
    \A k \in 1 .. Len(detectors) :
        \A i \in 1 .. Size(ShapeOf(k)) : TallyOf(k, i) >= 0

\* without negative tallies a bin of mean 0 has error 0
ZeroTallyZeroErrorIfNoNegative ==
    NoNegativeTally => C1_ZeroTallyZeroError

\* with positive uniform tallies the aggregated error is e / sqrt(N)
UniformRunsIfNoNegative ==
    NoNegativeTally => C3_UniformRuns

\* the steps Call, Inspect, EndLoop, Warn, Build end as fromDetectors does
StepsAgree ==
    Finished =>
        /\ raised = fromDetectors(detectors).raised
        /\ sampled = fromDetectors(detectors).sampled
        /\ warnings = IF fromDetectors(detectors).warned = {}
                      THEN << >>
                      ELSE << fromDetectors(detectors).warned >>

====
